---- MODULE Spec2Model ----
(***************************************************************************)
(* Transition-state visualiser (Syntopia/entropy): potential energy        *)
(* surface, nudged elastic band, transition state and umbrella sampling.   *)
(*                                                                         *)
(* Python floats are modelled as fixed-point numbers: the integer v stands *)
(* for v / Unit.  Products and quotients round to the nearest multiple of  *)
(* 1 / Unit, as a float operation rounds to the nearest float.  Python     *)
(* lists keep their 0-based indices: a list of n items is a function on    *)
(* 0 .. n-1.  A 2-vector [a, b] is the tuple <<a, b>>, so the source's     *)
(* v[0], v[1] are v[1], v[2] here.                                         *)
(*                                                                         *)
(* Specifications: SpecNeb (run_neb), SpecEntry (_state_entry_point),      *)
(* SpecGrid (create_grid, evaluate_potential, grid_min_max), SpecBoundary  *)
(* (transition_state_boundary), SpecUmbrella (umbrella_sampling) and Spec  *)
(* (compute_visualisation, invoked up to MaxCalls times in a row, running  *)
(* run_neb and umbrella_sampling through their own steps).                 *)
(***************************************************************************)
EXTENDS Integers, Sequences, FiniteSets, TLC

VARIABLES
    \* ---- run_neb (src/app/neb.py) ----
    neb_pc,          \* position in run_neb
    gaussians,       \* the Gaussians behind the potential / gradient callables
    start,           \* run_neb's start argument
    end,             \* run_neb's end argument
    n_images,        \* run_neb's n_images argument
    k_spring,        \* run_neb's k_spring argument
    max_iter,        \* run_neb's max_iter argument
    step_size,       \* run_neb's step_size argument
    force_tolerance, \* run_neb's force_tolerance argument
    images,          \* local list images
    forces,          \* local list forces
    iteration,       \* loop variable of line 43 (Unbound before the first pass)
    max_force,       \* local max_force (Unbound before the first pass)
    idx,             \* loop variable of the inner loops
    neb_result,      \* the NEBResult returned, or None
    \* ---- the grid functions (src/app/pes.py, src/app/__init__.py) ----
    scan_pc,          \* position in the function under way
    grid_spec,        \* the GridSpec the grid is built from
    grid_gaussians,   \* the Gaussians whose potential is gridded
    grid_x,           \* mesh of x coordinates, grid_x[row][col]
    grid_y,           \* mesh of y coordinates, grid_y[row][col]
    potential_values, \* the gridded potential, potential_values[row][col]
    state,            \* _state_entry_point's CircularState
    transition_energy,\* transition_state_boundary's transition_energy
    tolerance,        \* transition_state_boundary's tolerance
    row,              \* loop variable of the scan under way
    col,              \* loop variable of the scan under way
    best_point,       \* _state_entry_point's best_point
    best_energy,      \* _state_entry_point's best_energy
    points,           \* transition_state_boundary's points
    z_range,          \* grid_min_max's (min_val, max_val), or None
    \* ---- umbrella_sampling (src/app/sampling.py) ----
    umb_pc,           \* position in umbrella_sampling
    umb_gaussians,    \* the Gaussians behind the potential callable
    path,             \* umbrella_sampling's path argument
    rng,              \* state of the generator rng
    windows,          \* local list windows
    window_idx,       \* loop variable idx of line 32
    samples,          \* local list samples of the window under way
    weights,          \* local list weights of the window under way
    energies,         \* local list energies of the window under way
    partition,        \* local partition of the window under way
    expectation,      \* local expectation of the window under way
    free_energy,      \* local free_energy of the window under way
    \* ---- compute_visualisation (src/app/__init__.py) ----
    pipe_pc,          \* position in compute_visualisation ("idle": not called)
    calls,            \* the number of invocations so far
    payload,          \* compute_visualisation's argument
    called,           \* the functions this invocation has called so far
    x_axis,           \* local x_axis
    y_axis,           \* local y_axis
    state_a,          \* local state_a
    state_b,          \* local state_b
    transition_idx,   \* local transition_idx
    transition_point, \* local transition_point
    response,         \* local response
    log               \* per finished invocation: payload, outcome, calls made

nebVars == <<neb_pc, gaussians, start, end, n_images, k_spring, max_iter, step_size,
             force_tolerance, images, forces, iteration, max_force, idx,
             neb_result>>

scanVars == <<scan_pc, grid_spec, grid_gaussians, grid_x, grid_y,
              potential_values, state, transition_energy, tolerance, row, col,
              best_point, best_energy, points, z_range>>

umbVars == <<umb_pc, umb_gaussians, path, rng, windows, window_idx, samples,
             weights, energies, partition, expectation, free_energy>>

pipeVars == <<pipe_pc, calls, payload, called, x_axis, y_axis, state_a, state_b,
              transition_idx, transition_point, response, log>>

vars == <<nebVars, scanVars, umbVars, pipeVars>>

-----------------------------------------------------------------------------
(* Bounds of the model *)

Unit == 10          \* fixed-point resolution: v stands for v / Unit
MaxImages == 4      \* n_images ranges over 2 .. MaxImages
MaxIter == 3        \* max_iter ranges over 0 .. MaxIter
SamplesPerWindow == 2   \* stands for samples_per_window = 120
MaxRes == 7         \* a GridSpec's resolution ranges over 2 .. MaxRes
EntryRes == 2       \* resolution of the grids _state_entry_point is run on
MinResolution == 3  \* stands for 10, the least resolution from_mapping allows
MaxCalls == 3       \* compute_visualisation is invoked at most MaxCalls times

(* Python values that are not numbers *)
None == [none |-> TRUE]
\* A local name not yet assigned. iteration, the one name tested against it,
\* is >= 0 once assigned; any other local is read only where the code has
\* assigned it.
Unbound == -1

-----------------------------------------------------------------------------
(* Fixed-point arithmetic *)

Abs(a) == IF a < 0 THEN -a ELSE a

Sign(a) == IF a < 0 THEN -1 ELSE 1

\* a / b rounded to the nearest integer, halves away from zero (b > 0)
DivRound(a, b) == Sign(a) * ((2 * Abs(a) + b) \div (2 * b))

\* float product a * b
FMul(a, b) == DivRound(a * b, Unit)

\* float quotient a / b (b # 0)
FDiv(a, b) == Sign(b) * DivRound(a * Unit, Abs(b))

\* the number k as a float
Float(k) == k * Unit

RECURSIVE SqrtBetween(_, _, _)
SqrtBetween(n, lo, hi) ==    \* lo * lo <= n < hi * hi
    IF hi - lo <= 1 THEN lo
    ELSE LET mid == (lo + hi) \div 2
         IN  IF mid * mid <= n THEN SqrtBetween(n, mid, hi)
                               ELSE SqrtBetween(n, lo, mid)

\* floor of the square root of n >= 0
ISqrt(n) == SqrtBetween(n, 0, n + 1)

\* math.hypot(a, b)
Hypot(a, b) == ISqrt(a * a + b * b)

\* The largest finite float
FloatMax == 400 * Unit

\* v * (1 + 1/Unit)^k, or the first value past FloatMax on the way
RECURSIVE Compound(_, _)
Compound(v, k) ==
    IF k = 0 \/ v > FloatMax THEN v ELSE Compound(v + DivRound(v, Unit), k - 1)

\* math.exp(x) for x <= 0: e^(1/Unit) is taken as 1 + 1/Unit and compounded,
\* so that exp(0) = 1, exp is monotone and exp of a large negative number
\* underflows to 0.
ExpNeg(x) == DivRound(Unit * Unit, Compound(Unit, -x))

Max2(a, b) == IF b > a THEN b ELSE a     \* Python's max(a, b)

\* float("inf"): above every finite float
Inf == FloatMax + 1

\* float("nan"): a tag, never ordered against a number
NaN == Inf + 1

IsFinite(a) == a # NaN /\ a # Inf /\ a # -Inf

\* a finite result rounded into the float range: past FloatMax it is inf
Overflowed(v) == IF v > FloatMax THEN Inf ELSE IF v < -FloatMax THEN -Inf ELSE v

\* a + b, a * b, a / b and -a on floats that may be inf or nan (b # 0 in a / b)
XAdd(a, b) ==
    IF a = NaN \/ b = NaN THEN NaN
    ELSE IF ~IsFinite(a) /\ ~IsFinite(b) THEN (IF a = b THEN a ELSE NaN)
    ELSE IF ~IsFinite(a) THEN a
    ELSE IF ~IsFinite(b) THEN b
    ELSE Overflowed(a + b)

XNeg(a) == IF a = NaN THEN NaN ELSE -a

XMul(a, b) ==
    IF a = NaN \/ b = NaN THEN NaN
    ELSE IF ~IsFinite(a) \/ ~IsFinite(b)
         THEN (IF a = 0 \/ b = 0 THEN NaN ELSE Sign(a) * Sign(b) * Inf)
    ELSE Overflowed(FMul(a, b))

XDiv(a, b) ==
    IF a = NaN \/ b = NaN THEN NaN
    ELSE IF ~IsFinite(a) /\ ~IsFinite(b) THEN NaN
    ELSE IF ~IsFinite(a) THEN Sign(a) * Sign(b) * Inf
    ELSE IF ~IsFinite(b) THEN 0
    ELSE Overflowed(FDiv(a, b))

\* Python's max(a, b): b only when b > a, which is False when either is nan
XMax(a, b) == IF a # NaN /\ b # NaN /\ b > a THEN b ELSE a

\* math.exp(x) raises OverflowError instead of returning a value past FloatMax
ExpOverflows(x) == x > 0 /\ Compound(Unit, x) > FloatMax

\* math.exp(x), where it does not raise
Exp(x) == IF x <= 0 THEN ExpNeg(x) ELSE Compound(Unit, x)

\* the largest k with (1 + 1/Unit)^k <= v / Unit, for v >= Unit
RECURSIVE LogFrom(_, _, _)
LogFrom(v, acc, k) ==
    LET next == acc + DivRound(acc, Unit)
    IN  IF next > v THEN k ELSE LogFrom(v, next, k + 1)

\* math.log(a) for a > 0, inf or nan: the inverse of Exp
Log(a) ==
    IF a = NaN \/ a = Inf THEN a
    ELSE IF a >= Unit THEN LogFrom(a, Unit, 0)
    ELSE -LogFrom(DivRound(Unit * Unit, a), Unit, 0)

\* Python lists: len(list), list.append(v), list[i] with negative indices
PyLen(list) == Cardinality(DOMAIN list)

PyAppend(list, v) ==
    [i \in 0 .. PyLen(list) |-> IF i < PyLen(list) THEN list[i] ELSE v]

At(list, i) == list[IF i < 0 THEN i + PyLen(list) ELSE i]

-----------------------------------------------------------------------------
(* src/app/pes.py: the potential of a list of Gaussians at a point *)

\* A Gaussian is [amplitude, sigma, x0, y0] (floats); a list of Gaussians is
\* a sequence.

RECURSIVE evaluate_potential_at_point(_, _)
evaluate_potential_at_point(point, gs) ==
    IF gs = <<>> THEN 0
    ELSE LET gaussian == gs[Len(gs)]
             dx == point[1] - gaussian.x0
             dy == point[2] - gaussian.y0
             sigma2 == FMul(gaussian.sigma, gaussian.sigma)
             r2 == FMul(dx, dx) + FMul(dy, dy)
             term == FMul(gaussian.amplitude,
                          ExpNeg(FDiv(FMul(-(Unit \div 2), r2), sigma2)))
         IN  evaluate_potential_at_point(point, SubSeq(gs, 1, Len(gs) - 1)) + term

RECURSIVE evaluate_gradient_at_point(_, _)
evaluate_gradient_at_point(point, gs) ==
    IF gs = <<>> THEN <<0, 0>>
    ELSE LET gaussian == gs[Len(gs)]
             dx == point[1] - gaussian.x0
             dy == point[2] - gaussian.y0
             sigma2 == FMul(gaussian.sigma, gaussian.sigma)
             r2 == FMul(dx, dx) + FMul(dy, dy)
             coeff == FDiv(FMul(gaussian.amplitude,
                                ExpNeg(FDiv(FMul(-(Unit \div 2), r2), sigma2))),
                           sigma2)
             rest == evaluate_gradient_at_point(point, SubSeq(gs, 1, Len(gs) - 1))
         IN  <<rest[1] + FMul(-dx, coeff), rest[2] + FMul(-dy, coeff)>>

Gaussian(a, s, x, y) ==
    [amplitude |-> Float(a), sigma |-> Float(s), x0 |-> Float(x), y0 |-> Float(y)]

\* The potentials the model runs on: none, one barrier, a well with a barrier.
GaussianLists ==
    { <<>>,
      << Gaussian(4, 1, 0, 0) >>,
      << Gaussian(-6, 1, 0, 0), Gaussian(3, 1, 1, 0) >> }

-----------------------------------------------------------------------------
(* src/app/pes.py: the grid *)

GridSpec(minimum, maximum, resolution) ==
    [minimum |-> minimum, maximum |-> maximum, resolution |-> resolution]

CircularState(x0, y0, radius) == [x0 |-> x0, y0 |-> y0, radius |-> radius]

\* (mutant) the step divides by num instead of num - 1
linspace_step_by_num(first, stop, num) ==
    IF num = 1 THEN [i \in 0 .. 0 |-> first]
    ELSE LET step == FDiv(stop - first, Float(num))
         IN  [i \in 0 .. (num - 1) |-> first + step * i]

linspace(first, stop, num) ==
    IF num = 1 THEN [i \in 0 .. 0 |-> first]
    ELSE LET step == FDiv(stop - first, Float(num - 1))
         IN  [i \in 0 .. (num - 1) |-> first + step * i]

create_grid(spec) ==
    LET axis_x == linspace(spec.minimum, spec.maximum, spec.resolution)
        axis_y == linspace(spec.minimum, spec.maximum, spec.resolution)
        cells == 0 .. (spec.resolution - 1)
    IN  [grid_x |-> [r \in cells |-> [c \in cells |-> axis_x[c]]],
         grid_y |-> [r \in cells |-> [c \in cells |-> axis_y[r]]],
         x_axis |-> axis_x,
         y_axis |-> axis_y]

\* len(grid_x), and len(grid_x[0]) if rows else 0
Rows(gx) == PyLen(gx)

Cols(gx) == IF Rows(gx) # 0 THEN PyLen(gx[0]) ELSE 0

\* The sum runs over the Gaussians cell by cell, as evaluate_potential_at_point
\* does at one point.
evaluate_potential(gx, gy, gs) ==
    [r \in 0 .. (Rows(gx) - 1) |->
        [c \in 0 .. (Cols(gx) - 1) |->
            evaluate_potential_at_point(<<gx[r][c], gy[r][c]>>, gs)]]

SetMin(S) == CHOOSE v \in S : \A w \in S : v <= w

SetMax(S) == CHOOSE v \in S : \A w \in S : v >= w

\* (min_val, max_val) of a 2D array, (0, 0) when it has no value
grid_min_max(values) ==
    LET all == {values[r][c] : r \in DOMAIN values, c \in 0 .. (Cols(values) - 1)}
    IN  IF all = {} THEN <<0, 0>> ELSE <<SetMin(all), SetMax(all)>>

\* (mutant) the band excludes its edge
InBandStrict(p, energy, tol) == Abs(p - energy) < tol

\* line 189: abs(potential[row][col] - transition_energy) <= tolerance
InBand(p, energy, tol) == Abs(p - energy) <= tol

\* lines 187-190: the scan's step at one cell
BoundaryCell(pts, gx, gy, pot, energy, tol, r, c) ==
    IF InBand(pot[r][c], energy, tol) THEN PyAppend(pts, <<gx[r][c], gy[r][c]>>)
    ELSE pts

\* the cell after (r, c) in row-major order; row = rows once all are done
NextCell(gx, r, c) ==
    IF c + 1 < Cols(gx) THEN <<r, c + 1>> ELSE <<r + 1, 0>>

RECURSIVE BoundaryFrom(_, _, _, _, _, _, _, _)
BoundaryFrom(pts, gx, gy, pot, energy, tol, r, c) ==
    IF r >= Rows(gx) \/ Cols(gx) = 0 THEN pts
    ELSE LET nxt == NextCell(gx, r, c)
         IN  BoundaryFrom(BoundaryCell(pts, gx, gy, pot, energy, tol, r, c),
                          gx, gy, pot, energy, tol, nxt[1], nxt[2])

transition_state_boundary(gx, gy, pot, energy, tol) ==
    BoundaryFrom(<<>>, gx, gy, pot, energy, tol, 0, 0)

-----------------------------------------------------------------------------
(* src/app/__init__.py: _state_entry_point *)

\* line 121: the cell lies in the state's circle
InCircle(x_val, y_val, st) ==
    FMul(x_val - st.x0, x_val - st.x0) + FMul(y_val - st.y0, y_val - st.y0)
        <= FMul(st.radius, st.radius)

\* lines 119-125: the scan's step at one cell; best is (best_point, best_energy)
EntryCell(best, gx, gy, pot, st, r, c) ==
    IF InCircle(gx[r][c], gy[r][c], st) /\ pot[r][c] < best[2]
    THEN << <<gx[r][c], gy[r][c]>>, pot[r][c] >>
    ELSE best

RECURSIVE EntryFrom(_, _, _, _, _, _, _)
EntryFrom(best, gx, gy, pot, st, r, c) ==
    IF r >= Rows(gx) \/ Cols(gx) = 0 THEN best
    ELSE LET nxt == NextCell(gx, r, c)
         IN  EntryFrom(EntryCell(best, gx, gy, pot, st, r, c),
                       gx, gy, pot, st, nxt[1], nxt[2])

state_entry_point(gx, gy, pot, st) ==
    EntryFrom(<< <<st.x0, st.y0>>, Inf >>, gx, gy, pot, st, 0, 0)[1]

-----------------------------------------------------------------------------
(* src/app/neb.py: run_neb *)

\* (mutant) range(0, n_images - 1): the loops start at the first image
InternalImagesFromZero(n) == 0 .. (n - 2)

\* range(1, n_images - 1): the images the optimizer loops visit
InternalImages(n) == 1 .. (n - 2)

\* lines 34-39: the linear interpolation between start and end
InitialImages(s, e, n) ==
    [index \in 0 .. (n - 1) |->
        LET t == FDiv(Float(index), Float(n - 1))
        IN  << FMul(s[1], Unit - t) + FMul(e[1], t),
               FMul(s[2], Unit - t) + FMul(e[2], t) >>]

\* lines 46-65: the force on image i, read from images i-1, i and i+1
TotalForce(imgs, i, gs, k) ==
    LET prev_image == At(imgs, i - 1)
        next_image == At(imgs, i + 1)
        raw == << next_image[1] - prev_image[1], next_image[2] - prev_image[2] >>
        tangent_norm == Hypot(raw[1], raw[2])
        tangent == IF tangent_norm = 0 THEN <<0, 0>>
                   ELSE << FDiv(raw[1], tangent_norm), FDiv(raw[2], tangent_norm) >>
        grad == evaluate_gradient_at_point(imgs[i], gs)
        grad_parallel_scalar == FMul(grad[1], tangent[1]) + FMul(grad[2], tangent[2])
        grad_parallel == << FMul(grad_parallel_scalar, tangent[1]),
                            FMul(grad_parallel_scalar, tangent[2]) >>
        grad_perp == << grad[1] - grad_parallel[1], grad[2] - grad_parallel[2] >>
        dist_forward == Hypot(next_image[1] - imgs[i][1], next_image[2] - imgs[i][2])
        dist_backward == Hypot(imgs[i][1] - prev_image[1], imgs[i][2] - prev_image[2])
        spring_force_mag == FMul(k, dist_forward - dist_backward)
        spring_force == << FMul(spring_force_mag, tangent[1]),
                           FMul(spring_force_mag, tangent[2]) >>
    IN  << spring_force[1] - grad_perp[1], spring_force[2] - grad_perp[2] >>

\* the first value of a range, or 1 past nothing when the range is empty
FirstOf(range) == IF range = {} THEN 1 ELSE CHOOSE i \in range : \A j \in range : i <= j

\* k_spring: run_neb's default (line 24)
K_SPRING == 2

\* The start / end pairs the model runs on
EndPoints ==
    { << <<Float(-2), 0>>, <<Float(2), 0>> >>,
      << <<Float(-1), Float(-1)>>, <<Float(1), Float(2)>> >>,
      << <<0, Float(1)>>, <<0, Float(1)>> >> }

\* compute_visualisation is not running: no invocation yet, or between two
PipeIdle ==
    /\ pipe_pc = "idle"
    /\ payload = None
    /\ called = <<>>
    /\ x_axis = <<>>
    /\ y_axis = <<>>
    /\ state_a = None
    /\ state_b = None
    /\ transition_idx = Unbound
    /\ transition_point = <<0, 0>>
    /\ response = None

\* compute_visualisation has never been called
PipeOff ==
    /\ PipeIdle
    /\ calls = 0
    /\ log = <<>>

\* The grid functions are not in use
ScanIdle ==
    /\ scan_pc = "idle"
    /\ grid_spec = None
    /\ grid_gaussians = <<>>
    /\ grid_x = <<>>
    /\ grid_y = <<>>
    /\ potential_values = <<>>
    /\ state = None
    /\ transition_energy = 0
    /\ tolerance = 0
    /\ row = 0
    /\ col = 0
    /\ best_point = <<0, 0>>
    /\ best_energy = 0
    /\ points = <<>>
    /\ z_range = None

\* run_neb is not in use
NebIdle ==
    /\ neb_pc = "idle"
    /\ gaussians = <<>>
    /\ start = <<0, 0>>
    /\ end = <<0, 0>>
    /\ n_images = 0
    /\ k_spring = 0
    /\ max_iter = 0
    /\ step_size = 0
    /\ force_tolerance = 0
    /\ images = <<>>
    /\ forces = <<>>
    /\ iteration = Unbound
    /\ max_force = Unbound
    /\ idx = Unbound
    /\ neb_result = None

\* umbrella_sampling is not in use
UmbIdle ==
    /\ umb_pc = "idle"
    /\ umb_gaussians = <<>>
    /\ path = <<>>
    /\ rng = Unbound
    /\ windows = <<>>
    /\ window_idx = Unbound
    /\ samples = <<>>
    /\ weights = <<>>
    /\ energies = <<>>
    /\ partition = Unbound
    /\ expectation = Unbound
    /\ free_energy = Unbound

NebInit ==
    /\ ScanIdle
    /\ UmbIdle
    /\ PipeOff
    /\ neb_pc = "start"
    /\ gaussians \in GaussianLists
    /\ \E pair \in EndPoints : start = pair[1] /\ end = pair[2]
    /\ n_images \in 2 .. MaxImages
    /\ k_spring = Float(K_SPRING)
    /\ max_iter \in 0 .. MaxIter
    /\ step_size \in {Unit \div 2, Unit}
    /\ force_tolerance \in {1, 3 * Unit}
    /\ images = <<>>
    /\ forces = <<>>
    /\ iteration = Unbound
    /\ max_force = Unbound
    /\ idx = Unbound
    /\ neb_result = None

\* lines 31-41: build the images and the zero forces
NebSetup ==
    /\ neb_pc = "start"
    /\ images' = InitialImages(start, end, n_images)
    /\ forces' = [i \in 0 .. (n_images - 1) |-> <<0, 0>>]
    /\ neb_pc' = "loop"
    /\ UNCHANGED <<gaussians, start, end, n_images, k_spring, max_iter, step_size,
                   force_tolerance, iteration, max_force, idx, neb_result>>
    /\ UNCHANGED <<scanVars, umbVars, pipeVars>>

\* line 43-44: the next value of range(max_iter), or the loop's end
NebLoop ==
    /\ neb_pc = "loop"
    /\ LET next == IF iteration = Unbound THEN 0 ELSE iteration + 1
       IN  IF next < max_iter
           THEN /\ iteration' = next
                /\ max_force' = 0
                /\ idx' = FirstOf(InternalImages(n_images))
                /\ neb_pc' = "force"
           ELSE /\ neb_pc' = "return"
                /\ UNCHANGED <<iteration, max_force, idx>>
    /\ UNCHANGED <<gaussians, start, end, n_images, k_spring, max_iter, step_size,
                   force_tolerance, images, forces, neb_result>>
    /\ UNCHANGED <<scanVars, umbVars, pipeVars>>

\* (mutant) image idx is moved as soon as its force is known
NebForceInPlace ==
    /\ neb_pc = "force"
    /\ IF idx \in InternalImages(n_images)
       THEN LET total_force == TotalForce(images, idx, gaussians, k_spring)
            IN  /\ forces' = [forces EXCEPT ![idx] = total_force]
                /\ images' = [images EXCEPT ![idx] =
                                << images[idx][1] + FMul(step_size, total_force[1]),
                                   images[idx][2] + FMul(step_size, total_force[2]) >>]
                /\ max_force' = Max2(max_force, Hypot(total_force[1], total_force[2]))
                /\ idx' = idx + 1
                /\ UNCHANGED neb_pc
       ELSE /\ neb_pc' = "check"
            /\ UNCHANGED <<forces, images, max_force, idx>>
    /\ UNCHANGED <<gaussians, start, end, n_images, k_spring, max_iter, step_size,
                   force_tolerance, iteration, neb_result>>
    /\ UNCHANGED <<scanVars, umbVars, pipeVars>>

\* lines 45-67: one pass of the force loop, for image idx
NebForce ==
    /\ neb_pc = "force"
    /\ IF idx \in InternalImages(n_images)
       THEN LET total_force == TotalForce(images, idx, gaussians, k_spring)
            IN  /\ forces' = [forces EXCEPT ![idx] = total_force]
                /\ max_force' = Max2(max_force, Hypot(total_force[1], total_force[2]))
                /\ idx' = idx + 1
                /\ UNCHANGED neb_pc
       ELSE /\ neb_pc' = "check"
            /\ UNCHANGED <<forces, max_force, idx>>
    /\ UNCHANGED <<gaussians, start, end, n_images, k_spring, max_iter, step_size,
                   force_tolerance, images, iteration, neb_result>>
    /\ UNCHANGED <<scanVars, umbVars, pipeVars>>

\* (mutant) the images are moved before the convergence test stops the loop
NebCheckAfterUpdate ==
    /\ neb_pc = "check"
    /\ IF max_force < force_tolerance
       THEN /\ neb_pc' = "return"
            /\ images' = [i \in DOMAIN images |->
                            IF i \in InternalImages(n_images)
                            THEN << images[i][1] + FMul(step_size, forces[i][1]),
                                    images[i][2] + FMul(step_size, forces[i][2]) >>
                            ELSE images[i]]
            /\ UNCHANGED idx
       ELSE /\ neb_pc' = "update"
            /\ idx' = FirstOf(InternalImages(n_images))
            /\ UNCHANGED images
    /\ UNCHANGED <<gaussians, start, end, n_images, k_spring, max_iter, step_size,
                   force_tolerance, forces, iteration, max_force, neb_result>>
    /\ UNCHANGED <<scanVars, umbVars, pipeVars>>

\* lines 69-70: the convergence test
NebCheck ==
    /\ neb_pc = "check"
    /\ IF max_force < force_tolerance
       THEN neb_pc' = "return" /\ UNCHANGED idx
       ELSE neb_pc' = "update" /\ idx' = FirstOf(InternalImages(n_images))
    /\ UNCHANGED <<gaussians, start, end, n_images, k_spring, max_iter, step_size,
                   force_tolerance, images, forces, iteration, max_force,
                   neb_result>>
    /\ UNCHANGED <<scanVars, umbVars, pipeVars>>

\* lines 72-74: one pass of the update loop, for image idx
NebUpdate ==
    /\ neb_pc = "update"
    /\ IF idx \in InternalImages(n_images)
       THEN /\ images' = [images EXCEPT ![idx] =
                            << images[idx][1] + FMul(step_size, forces[idx][1]),
                               images[idx][2] + FMul(step_size, forces[idx][2]) >>]
            /\ idx' = idx + 1
            /\ UNCHANGED neb_pc
       ELSE /\ neb_pc' = "loop"
            /\ UNCHANGED <<images, idx>>
    /\ UNCHANGED <<gaussians, start, end, n_images, k_spring, max_iter, step_size,
                   force_tolerance, forces, iteration, max_force, neb_result>>
    /\ UNCHANGED <<scanVars, umbVars, pipeVars>>

\* lines 76-78: the result; reading iteration before the loop has bound it
\* raises UnboundLocalError
NebReturn ==
    /\ neb_pc = "return"
    /\ IF iteration = Unbound
       THEN /\ neb_pc' = "raised"
            /\ UNCHANGED neb_result
       ELSE /\ neb_pc' = "done"
            /\ neb_result' =
                 [path |-> images,
                  energies |-> [i \in DOMAIN images |->
                                   evaluate_potential_at_point(images[i], gaussians)],
                  gradients |-> [i \in DOMAIN images |->
                                    evaluate_gradient_at_point(images[i], gaussians)],
                  iterations |-> iteration + 1,
                  max_force |-> max_force]
    /\ UNCHANGED <<gaussians, start, end, n_images, k_spring, max_iter, step_size,
                   force_tolerance, images, forces, iteration, max_force, idx>>
    /\ UNCHANGED <<scanVars, umbVars, pipeVars>>

NebNext == NebSetup \/ NebLoop \/ NebForce \/ NebCheck \/ NebUpdate \/ NebReturn

SpecNeb == NebInit /\ [][NebNext]_vars

-----------------------------------------------------------------------------
(* Claims about run_neb *)

\* C1: for every n_images >= 2 and max_iter >= 0 run_neb returns normally, with
\* a path of exactly n_images points of 2 coordinates, one energy per image
\* and iterations <= max_iter.
C1_NebReturnsPath ==
    /\ neb_pc # "raised"
    /\ neb_pc = "done" =>
          /\ DOMAIN neb_result.path = 0 .. (n_images - 1)
          /\ \A i \in DOMAIN neb_result.path : Len(neb_result.path[i]) = 2
          /\ DOMAIN neb_result.energies = DOMAIN neb_result.path
          /\ neb_result.iterations <= max_iter

\* C2: once the images are built, image 0 is the start point and image
\* n_images - 1 the end point, in every state of the optimizer loop and in
\* the path returned.
C2_EndpointsPinned ==
    /\ neb_pc # "start" =>
          /\ images[0] = start
          /\ images[n_images - 1] = end
    /\ neb_pc = "done" =>
          /\ neb_result.path[0] = start
          /\ neb_result.path[n_images - 1] = end

\* C2's case: run_neb has returned after an update pass that moved an
\* internal image, between two distinct end points.
C2_Witness ==
    /\ neb_pc = "done"
    /\ start # end
    /\ \E i \in InternalImages(n_images) :
          images[i] # InitialImages(start, end, n_images)[i]

\* the loop of line 43 was left by the break of line 70: an exhausted loop
\* ends on an update pass, after a test that found max_force >= force_tolerance
LeftByBreak ==
    /\ neb_pc \in {"return", "done"}
    /\ iteration # Unbound
    /\ max_force < force_tolerance

\* C11: when the convergence test stops the loop, no image has moved since
\* the force pass: the force of every internal image is the one its position
\* and its neighbours' give, max_force is their largest norm and is below
\* force_tolerance, and the path returned is those positions. A loop that
\* stops before max_iter iterations has stopped that way.
C11_ConvergedBeforeUpdate ==
    /\ (neb_pc \in {"return", "done"} /\ iteration # Unbound
            /\ iteration + 1 < max_iter) => max_force < force_tolerance
    /\ LeftByBreak =>
          /\ \A i \in InternalImages(n_images) :
                /\ forces[i] = TotalForce(images, i, gaussians, k_spring)
                /\ Hypot(forces[i][1], forces[i][2]) <= max_force
          /\ neb_pc = "done" =>
                /\ neb_result.path = images
                /\ neb_result.max_force < force_tolerance
                /\ neb_result.iterations = iteration + 1

\* C11's case: run_neb has returned after the test stopped the loop in a
\* later iteration than the first, on nonzero forces that would have moved
\* an image.
C11_Witness ==
    /\ neb_pc = "done"
    /\ LeftByBreak
    /\ iteration > 0
    /\ \E i \in InternalImages(n_images) :
          \/ FMul(step_size, forces[i][1]) # 0
          \/ FMul(step_size, forces[i][2]) # 0

\* the images as they were when the current iteration began: during the
\* update pass the images before idx have moved by step_size * their force
ImagesAtIterationStart ==
    [i \in DOMAIN images |->
        IF neb_pc = "update" /\ i \in InternalImages(n_images) /\ i < idx
        THEN << images[i][1] - FMul(step_size, forces[i][1]),
                images[i][2] - FMul(step_size, forces[i][2]) >>
        ELSE images[i]]

\* C12: within an iteration every force computed so far is the one the
\* positions of images i-1, i and i+1 at the start of the iteration give: no
\* image moves during the force pass, and during the update pass each image
\* moves from its old position by step_size times a force computed from old
\* positions only.
C12_ForcesFromOldPositions ==
    /\ neb_pc \in {"force", "check"} =>
          \A i \in InternalImages(n_images) :
              (neb_pc = "check" \/ i < idx) =>
                  forces[i] = TotalForce(images, i, gaussians, k_spring)
    /\ neb_pc = "update" =>
          \A i \in InternalImages(n_images) :
              forces[i] = TotalForce(ImagesAtIterationStart, i, gaussians, k_spring)

\* C12's case: in the update pass an image has moved and the force of its
\* right neighbour, not yet moved, is not the force the moved positions give.
C12_Witness ==
    /\ neb_pc = "update"
    /\ \E i \in InternalImages(n_images) :
          /\ i < idx
          /\ i + 1 \in InternalImages(n_images)
          /\ images[i] # ImagesAtIterationStart[i]
          /\ forces[i + 1] # TotalForce(images, i + 1, gaussians, k_spring)

-----------------------------------------------------------------------------
(* _state_entry_point as a state machine, on any potential array *)

\* The values a cell's potential takes
EntryPotentials == {Float(1), Float(2), Inf}

\* The states: circles that hold no cell, some cells, every cell
EntryStates ==
    { CircularState(0, 0, Unit \div 2),
      CircularState(0, 0, Float(2)),
      CircularState(Float(1), Float(1), Float(1)),
      CircularState(Float(1), Float(-1), Float(2)),
      CircularState(Float(3), 0, Float(1)),
      CircularState(0, Float(1), Float(1)) }

EntryInit ==
    /\ NebIdle
    /\ UmbIdle
    /\ PipeOff
    /\ scan_pc = "entry"
    /\ grid_spec = GridSpec(Float(-1), Float(1), EntryRes)
    /\ grid_gaussians = <<>>
    /\ grid_x = create_grid(grid_spec).grid_x
    /\ grid_y = create_grid(grid_spec).grid_y
    /\ potential_values \in
         [0 .. (EntryRes - 1) -> [0 .. (EntryRes - 1) -> EntryPotentials]]
    /\ state \in EntryStates
    /\ transition_energy = 0
    /\ tolerance = 0
    /\ row = 0
    /\ col = 0
    /\ best_point = <<0, 0>>
    /\ best_energy = 0
    /\ points = <<>>
    /\ z_range = None

\* lines 113-116
EntryBegin ==
    /\ scan_pc = "entry"
    /\ best_point' = <<state.x0, state.y0>>
    /\ best_energy' = Inf
    /\ row' = 0
    /\ col' = 0
    /\ scan_pc' = "entry_scan"
    /\ UNCHANGED <<grid_spec, grid_gaussians, grid_x, grid_y, potential_values,
                   state, transition_energy, tolerance, points, z_range>>
    /\ UNCHANGED <<nebVars, umbVars, pipeVars>>

\* lines 117-126: one cell of the scan, or the return once the rows are done
EntryScan ==
    /\ scan_pc = "entry_scan"
    /\ IF row < Rows(grid_x)
       THEN LET best == EntryCell(<<best_point, best_energy>>, grid_x, grid_y,
                                  potential_values, state, row, col)
                nxt == NextCell(grid_x, row, col)
            IN  /\ best_point' = best[1]
                /\ best_energy' = best[2]
                /\ row' = nxt[1]
                /\ col' = nxt[2]
                /\ UNCHANGED scan_pc
       ELSE /\ scan_pc' = "entry_done"
            /\ UNCHANGED <<best_point, best_energy, row, col>>
    /\ UNCHANGED <<grid_spec, grid_gaussians, grid_x, grid_y, potential_values,
                   state, transition_energy, tolerance, points, z_range>>
    /\ UNCHANGED <<nebVars, umbVars, pipeVars>>

EntryNext == EntryBegin \/ EntryScan

SpecEntry == EntryInit /\ [][EntryNext]_vars

\* C4: _state_entry_point returns a cell inside the circle whose potential is
\* <= that of every cell inside the circle, the first such cell in row-major
\* order, when a cell lies inside; the state's center when none does; never
\* a cell outside the circle.
C4_EntryPointIsLowestInside ==
    scan_pc = "entry_done" =>
        LET cells == {rc \in (0 .. (Rows(grid_x) - 1)) \X (0 .. (Cols(grid_x) - 1)) : TRUE}
            inside(rc) ==
                LET dx == grid_x[rc[1]][rc[2]] - state.x0
                    dy == grid_y[rc[1]][rc[2]] - state.y0
                IN  FMul(dx, dx) + FMul(dy, dy) <= FMul(state.radius, state.radius)
            at(rc) == <<grid_x[rc[1]][rc[2]], grid_y[rc[1]][rc[2]]>>
            pot(rc) == potential_values[rc[1]][rc[2]]
            before(a, b) == a[1] < b[1] \/ (a[1] = b[1] /\ a[2] < b[2])
        IN  IF \E rc \in cells : inside(rc)
            THEN \E rc \in cells :
                    /\ inside(rc)
                    /\ best_point = at(rc)
                    /\ \A other \in cells : inside(other) => pot(rc) <= pot(other)
                    /\ \A other \in cells :
                          inside(other) /\ pot(other) = pot(rc) => ~before(other, rc)
            ELSE best_point = <<state.x0, state.y0>>

-----------------------------------------------------------------------------
(* create_grid, evaluate_potential and grid_min_max on a symmetric grid with
   one centered Gaussian *)

\* Symmetric grids: minimum = -maximum
SymmetricSpecs ==
    { GridSpec(Float(-m), Float(m), res) : m \in {1, 2}, res \in 2 .. MaxRes }

\* One Gaussian of positive amplitude centered at (0, 0)
CenteredGaussians ==
    { << [amplitude |-> Float(a), sigma |-> sg, x0 |-> 0, y0 |-> 0] >> :
        a \in {1, 5}, sg \in {Unit \div 2, Unit, 2 * Unit} }

GridInit ==
    /\ NebIdle
    /\ UmbIdle
    /\ PipeOff
    /\ scan_pc = "grid"
    /\ grid_spec \in SymmetricSpecs
    /\ grid_gaussians \in CenteredGaussians
    /\ grid_x = <<>>
    /\ grid_y = <<>>
    /\ potential_values = <<>>
    /\ state = None
    /\ transition_energy = 0
    /\ tolerance = 0
    /\ row = 0
    /\ col = 0
    /\ best_point = <<0, 0>>
    /\ best_energy = 0
    /\ points = <<>>
    /\ z_range = None

GridCreate ==
    /\ scan_pc = "grid"
    /\ grid_x' = create_grid(grid_spec).grid_x
    /\ grid_y' = create_grid(grid_spec).grid_y
    /\ scan_pc' = "evaluate"
    /\ UNCHANGED <<grid_spec, grid_gaussians, potential_values, state,
                   transition_energy, tolerance, row, col, best_point,
                   best_energy, points, z_range>>
    /\ UNCHANGED <<nebVars, umbVars, pipeVars>>

GridEvaluate ==
    /\ scan_pc = "evaluate"
    /\ potential_values' = evaluate_potential(grid_x, grid_y, grid_gaussians)
    /\ scan_pc' = "min_max"
    /\ UNCHANGED <<grid_spec, grid_gaussians, grid_x, grid_y, state,
                   transition_energy, tolerance, row, col, best_point,
                   best_energy, points, z_range>>
    /\ UNCHANGED <<nebVars, umbVars, pipeVars>>

GridMinMax ==
    /\ scan_pc = "min_max"
    /\ z_range' = grid_min_max(potential_values)
    /\ scan_pc' = "grid_done"
    /\ UNCHANGED <<grid_spec, grid_gaussians, grid_x, grid_y, potential_values,
                   state, transition_energy, tolerance, row, col, best_point,
                   best_energy, points>>
    /\ UNCHANGED <<nebVars, umbVars, pipeVars>>

GridNext == GridCreate \/ GridEvaluate \/ GridMinMax

SpecGrid == GridInit /\ [][GridNext]_vars

\* The cell (R // 2, R // 2) holds the grid's maximum
CenterIsMax ==
    LET center == grid_spec.resolution \div 2
    IN  /\ \A r \in DOMAIN potential_values : \A c \in DOMAIN potential_values[r] :
              potential_values[r][c] <= potential_values[center][center]
        /\ z_range[2] = potential_values[center][center]

-----------------------------------------------------------------------------
(* transition_state_boundary as a state machine *)

BoundaryInit ==
    /\ NebIdle
    /\ UmbIdle
    /\ PipeOff
    /\ scan_pc = "boundary"
    /\ grid_spec \in { GridSpec(Float(-2), Float(2), res) : res \in 2 .. MaxRes }
    /\ grid_gaussians \in GaussianLists
    /\ grid_x = create_grid(grid_spec).grid_x
    /\ grid_y = create_grid(grid_spec).grid_y
    /\ potential_values = evaluate_potential(grid_x, grid_y, grid_gaussians)
    /\ state = None
    /\ transition_energy \in {0, Float(2), Float(-3)}
    /\ tolerance \in {0, Unit \div 2, Float(1), Float(2)}
    /\ row = 0
    /\ col = 0
    /\ best_point = <<0, 0>>
    /\ best_energy = 0
    /\ points = <<>>
    /\ z_range = None

\* lines 184-186
BoundaryBegin ==
    /\ scan_pc = "boundary"
    /\ points' = <<>>
    /\ row' = 0
    /\ col' = 0
    /\ scan_pc' = "boundary_scan"
    /\ UNCHANGED <<grid_spec, grid_gaussians, grid_x, grid_y, potential_values,
                   state, transition_energy, tolerance, best_point, best_energy,
                   z_range>>
    /\ UNCHANGED <<nebVars, umbVars, pipeVars>>

\* lines 187-191: one cell of the scan, or the return once the rows are done
BoundaryScan ==
    /\ scan_pc = "boundary_scan"
    /\ IF row < Rows(grid_x)
       THEN LET nxt == NextCell(grid_x, row, col)
            IN  /\ points' = BoundaryCell(points, grid_x, grid_y, potential_values,
                                          transition_energy, tolerance, row, col)
                /\ row' = nxt[1]
                /\ col' = nxt[2]
                /\ UNCHANGED scan_pc
       ELSE /\ scan_pc' = "boundary_done"
            /\ UNCHANGED <<points, row, col>>
    /\ UNCHANGED <<grid_spec, grid_gaussians, grid_x, grid_y, potential_values,
                   state, transition_energy, tolerance, best_point, best_energy,
                   z_range>>
    /\ UNCHANGED <<nebVars, umbVars, pipeVars>>

BoundaryNext == BoundaryBegin \/ BoundaryScan

SpecBoundary == BoundaryInit /\ [][BoundaryNext]_vars

\* C6: transition_state_boundary returns exactly the grid points whose
\* potential p has |p - transition_energy| <= tolerance: each such cell once,
\* as [x, y], in row-major order, and no other cell; so the result is not
\* empty when a cell lies in the band.
C6_BoundaryIsTheBand ==
    scan_pc = "boundary_done" =>
        LET cells == (0 .. (Rows(grid_x) - 1)) \X (0 .. (Cols(grid_x) - 1))
            band == {rc \in cells :
                        Abs(potential_values[rc[1]][rc[2]] - transition_energy)
                            <= tolerance}
            at(rc) == <<grid_x[rc[1]][rc[2]], grid_y[rc[1]][rc[2]]>>
            before(a, b) == a[1] < b[1] \/ (a[1] = b[1] /\ a[2] < b[2])
        IN  /\ PyLen(points) = Cardinality(band)
            /\ DOMAIN points = 0 .. (Cardinality(band) - 1)
            /\ \A i \in DOMAIN points : \E rc \in band : points[i] = at(rc)
            /\ \A rc \in band : \E i \in DOMAIN points : points[i] = at(rc)
            /\ \A i \in DOMAIN points :
                  (i + 1) \in DOMAIN points =>
                      \E a, b \in band :
                          points[i] = at(a) /\ points[i + 1] = at(b) /\ before(a, b)
            /\ (band # {} => PyLen(points) > 0)

\* C6's case: the scan is done, some cells lie in the band and some outside,
\* and a cell lies exactly on the band's edge.
C6_Witness ==
    /\ scan_pc = "boundary_done"
    /\ PyLen(points) >= 2
    /\ PyLen(points) < Rows(grid_x) * Cols(grid_x)
    /\ tolerance > 0
    /\ \E r \in DOMAIN potential_values : \E c \in DOMAIN potential_values[r] :
          Abs(potential_values[r][c] - transition_energy) = tolerance

-----------------------------------------------------------------------------
(* src/app/sampling.py: umbrella_sampling and _estimate_tangent *)

\* umbrella_sampling's defaults (lines 21-23) and the seed of line 28
BETA == 1
SPRING_CONSTANT == 5
WINDOW_HALF_WIDTH == Unit \div 2
RNG_SEED == 42

\* 1e-12 of line 74: a positive value below one unit of resolution cannot be
\* told from the smallest positive float, one unit
EPSILON == 1

\* (mutant) the generator's seed moves with the number of invocations
RandomByInvocation(seed) == (seed + calls) % 16

\* random.Random(seed): the generator is a small linear congruential one
Random(seed) == seed % 16

\* the generator's state after one draw
RngNext(s) == (5 * s + 3) % 16

\* rng.gauss(0.0, sigma) drawn in state s: one of -1, -1/2, 0, 1/2, 1 sigmas
Gauss(s, sigma) == FMul(sigma, ((RngNext(s) % 5) - 2) * (Unit \div 2))

\* the indices _estimate_tangent reads from path (lines 90-95)
TangentReads(p, i) ==
    IF i = 0 THEN {1, 0}
    ELSE IF i = PyLen(p) - 1 THEN {-1, -2}
    ELSE {i + 1, i - 1}

\* list[i] raises IndexError
IndexError(list, i) == i >= PyLen(list) \/ i < -PyLen(list)

\* _estimate_tangent(path, idx), where it does not raise
estimate_tangent(p, i) ==
    LET tangent == IF i = 0
                   THEN << At(p, 1)[1] - At(p, 0)[1], At(p, 1)[2] - At(p, 0)[2] >>
                   ELSE IF i = PyLen(p) - 1
                   THEN << At(p, -1)[1] - At(p, -2)[1], At(p, -1)[2] - At(p, -2)[2] >>
                   ELSE << At(p, i + 1)[1] - At(p, i - 1)[1],
                           At(p, i + 1)[2] - At(p, i - 1)[2] >>
        norm == Hypot(tangent[1], tangent[2])
    IN  IF norm = 0 THEN << Float(1), 0 >>
        ELSE << FDiv(tangent[1], norm), FDiv(tangent[2], norm) >>

\* lines 34-39: the unit vector perpendicular to the tangent
Perp(tangent) ==
    LET perp == << -tangent[2], tangent[1] >>
        perp_norm == Hypot(perp[1], perp[2])
    IN  IF perp_norm = 0 THEN << 0, Float(1) >>
        ELSE << FDiv(perp[1], perp_norm), FDiv(perp[2], perp_norm) >>

\* lines 45-65: one pass of the sample loop; acc holds samples, weights,
\* energies, the generator and whether math.exp has raised
SampleOnce(acc, point, tangent, perp, gs) ==
    LET displacement_along == Gauss(acc.rng, WINDOW_HALF_WIDTH \div 2)
        after_along == RngNext(acc.rng)
        displacement_perp == Gauss(after_along, WINDOW_HALF_WIDTH)
        after_perp == RngNext(after_along)
        sample_point ==
            << point[1] + FMul(displacement_along, tangent[1])
                        + FMul(displacement_perp, perp[1]),
               point[2] + FMul(displacement_along, tangent[2])
                        + FMul(displacement_perp, perp[2]) >>
        potential_energy == evaluate_potential_at_point(sample_point, gs)
        dx == sample_point[1] - point[1]
        dy == sample_point[2] - point[2]
        bias_energy == FMul(FMul(Unit \div 2, Float(SPRING_CONSTANT)),
                            FMul(dx, dx) + FMul(dy, dy))
        exponent == FMul(-Float(BETA), potential_energy + bias_energy)
    IN  IF ExpOverflows(exponent)
        THEN [acc EXCEPT !.rng = after_perp, !.raised = TRUE]
        ELSE [samples |-> PyAppend(acc.samples,
                                   [x |-> sample_point[1], y |-> sample_point[2],
                                    potential |-> potential_energy,
                                    bias |-> bias_energy]),
              weights |-> PyAppend(acc.weights, Exp(exponent)),
              energies |-> PyAppend(acc.energies, potential_energy),
              rng |-> after_perp,
              raised |-> FALSE]

\* lines 44-65: the sample loop, n passes or until math.exp raises
RECURSIVE SampleLoop(_, _, _, _, _, _)
SampleLoop(acc, point, tangent, perp, gs, n) ==
    IF n = 0 \/ acc.raised THEN acc
    ELSE SampleLoop(SampleOnce(acc, point, tangent, perp, gs),
                    point, tangent, perp, gs, n - 1)

\* sum(list) of floats, from index i on
RECURSIVE SumFrom(_, _)
SumFrom(list, i) ==
    IF i >= PyLen(list) THEN 0 ELSE XAdd(list[i], SumFrom(list, i + 1))

\* line 72: the terms w * math.exp(-beta * e) of zip(weights, energies)
Terms(ws, es) ==
    [i \in DOMAIN ws |-> XMul(ws[i], Exp(FMul(-Float(BETA), es[i])))]

\* line 72 raises OverflowError on some term
TermsOverflow(es) ==
    \E i \in DOMAIN es : ExpOverflows(FMul(-Float(BETA), es[i]))

\* line 76
ReactionCoordinate(i, total_images) ==
    IF total_images > 1 THEN DivRound(i * Unit, total_images - 1) ELSE 0

\* the record UmbrellaWindow(center_index, reaction_coordinate, free_energy, samples)
UmbrellaWindow(center_index, reaction_coordinate, fe, smp) ==
    [center_index |-> center_index, reaction_coordinate |-> reaction_coordinate,
     free_energy |-> fe, samples |-> smp]

\* The paths the model runs on: no image, one image, or a straight line of
\* up to MaxImages images between a pair of end points
Paths ==
    { <<>> } \cup
    { [i \in {0} |-> pair[1]] : pair \in EndPoints } \cup
    { InitialImages(pair[1], pair[2], n) : pair \in EndPoints, n \in 2 .. MaxImages }

\* The potentials umbrella_sampling runs on: GaussianLists, a deep well and a
\* wide well
UmbPotentials ==
    GaussianLists \cup { << Gaussian(-8, 1, 0, 0) >>, << Gaussian(-6, 3, 0, 0) >> }

UmbInit ==
    /\ NebIdle
    /\ ScanIdle
    /\ PipeOff
    /\ umb_pc = "start"
    /\ umb_gaussians \in UmbPotentials
    /\ path \in Paths
    /\ rng = Unbound
    /\ windows = <<>>
    /\ window_idx = Unbound
    /\ samples = <<>>
    /\ weights = <<>>
    /\ energies = <<>>
    /\ partition = Unbound
    /\ expectation = Unbound
    /\ free_energy = Unbound

\* lines 28-32: the generator, the empty list, and the loop's first pass
UmbBegin ==
    /\ umb_pc = "start"
    /\ rng' = Random(RNG_SEED)
    /\ windows' = <<>>
    /\ IF PyLen(path) > 0
       THEN window_idx' = 0 /\ umb_pc' = "sample"
       ELSE UNCHANGED window_idx /\ umb_pc' = "return"
    /\ UNCHANGED <<umb_gaussians, path, samples, weights, energies, partition,
                   expectation, free_energy>>
    /\ UNCHANGED <<nebVars, scanVars, pipeVars>>

\* lines 33-65: the tangent, the perpendicular and the samples of window idx
UmbSample ==
    /\ umb_pc = "sample"
    /\ IF \E i \in TangentReads(path, window_idx) : IndexError(path, i)
       THEN /\ umb_pc' = "IndexError"
            /\ UNCHANGED <<rng, samples, weights, energies>>
       ELSE LET tangent == estimate_tangent(path, window_idx)
                drawn == SampleLoop([samples |-> <<>>, weights |-> <<>>,
                                     energies |-> <<>>, rng |-> rng,
                                     raised |-> FALSE],
                                    path[window_idx], tangent, Perp(tangent),
                                    umb_gaussians, SamplesPerWindow)
            IN  /\ samples' = drawn.samples
                /\ weights' = drawn.weights
                /\ energies' = drawn.energies
                /\ rng' = drawn.rng
                /\ umb_pc' = IF drawn.raised THEN "OverflowError" ELSE "estimate"
    /\ UNCHANGED <<umb_gaussians, path, windows, window_idx, partition,
                   expectation, free_energy>>
    /\ UNCHANGED <<nebVars, scanVars, pipeVars>>

\* lines 67-74: the partition function and the free energy of window idx
UmbEstimate ==
    /\ umb_pc = "estimate"
    /\ partition' = SumFrom(weights, 0)
    /\ IF partition' = 0
       THEN /\ free_energy' = NaN
            /\ umb_pc' = "append"
            /\ UNCHANGED expectation
       ELSE IF TermsOverflow(energies)
       THEN /\ umb_pc' = "OverflowError"
            /\ UNCHANGED <<expectation, free_energy>>
       ELSE /\ expectation' = XDiv(SumFrom(Terms(weights, energies), 0), partition')
            /\ free_energy' = XDiv(XNeg(Log(XMax(expectation', EPSILON))),
                                   Float(BETA))
            /\ umb_pc' = "append"
    /\ UNCHANGED <<umb_gaussians, path, rng, windows, window_idx, samples,
                   weights, energies>>
    /\ UNCHANGED <<nebVars, scanVars, pipeVars>>

\* (mutant) every window starts from a generator of its own, seeded afresh
UmbAppendReseed ==
    /\ umb_pc = "append"
    /\ windows' = PyAppend(windows,
                           UmbrellaWindow(window_idx,
                                          ReactionCoordinate(window_idx, PyLen(path)),
                                          free_energy, samples))
    /\ rng' = Random(RNG_SEED)
    /\ IF window_idx + 1 < PyLen(path)
       THEN window_idx' = window_idx + 1 /\ umb_pc' = "sample"
       ELSE UNCHANGED window_idx /\ umb_pc' = "return"
    /\ UNCHANGED <<umb_gaussians, path, samples, weights, energies,
                   partition, expectation, free_energy>>
    /\ UNCHANGED <<nebVars, scanVars, pipeVars>>

\* lines 76-84 and the loop's next pass
UmbAppend ==
    /\ umb_pc = "append"
    /\ windows' = PyAppend(windows,
                           UmbrellaWindow(window_idx,
                                          ReactionCoordinate(window_idx, PyLen(path)),
                                          free_energy, samples))
    /\ IF window_idx + 1 < PyLen(path)
       THEN window_idx' = window_idx + 1 /\ umb_pc' = "sample"
       ELSE UNCHANGED window_idx /\ umb_pc' = "return"
    /\ UNCHANGED <<umb_gaussians, path, rng, samples, weights, energies,
                   partition, expectation, free_energy>>
    /\ UNCHANGED <<nebVars, scanVars, pipeVars>>

\* line 86
UmbReturn ==
    /\ umb_pc = "return"
    /\ umb_pc' = "done"
    /\ UNCHANGED <<umb_gaussians, path, rng, windows, window_idx, samples,
                   weights, energies, partition, expectation, free_energy>>
    /\ UNCHANGED <<nebVars, scanVars, pipeVars>>

UmbNext == UmbBegin \/ UmbSample \/ UmbEstimate \/ UmbAppend \/ UmbReturn

SpecUmbrella == UmbInit /\ [][UmbNext]_vars

\* C7: for every path of N >= 1 images umbrella_sampling returns (it does not
\* raise IndexError), and what it returns is N windows in path order, window
\* i with center_index i and reaction_coordinate i/(N-1) when N > 1 (0.0
\* first, 1.0 last) and 0.0 when N = 1.
C7_WindowsFollowPath ==
    /\ umb_pc # "IndexError"
    /\ umb_pc = "done" =>
          LET total == PyLen(path)
          IN  /\ PyLen(windows) = total
              /\ \A i \in DOMAIN windows :
                    /\ windows[i].center_index = i
                    /\ windows[i].reaction_coordinate =
                          IF total > 1 THEN DivRound(i * Unit, total - 1) ELSE 0
              /\ total > 1 => /\ windows[0].reaction_coordinate = 0
                              /\ windows[total - 1].reaction_coordinate = Float(1)

\* C8: when a window's free energy has been computed, it is not-a-number if
\* and only if the partition function is exactly zero, and it is finite
\* whenever the partition function is nonzero.
C8_NaNIffZeroPartition ==
    umb_pc = "append" =>
        /\ (free_energy = NaN) <=> (partition = 0)
        /\ partition # 0 => IsFinite(free_energy)

\* the generator n draws after state s
RECURSIVE RngAfter(_, _)
RngAfter(s, n) == IF n = 0 THEN s ELSE RngAfter(RngNext(s), n - 1)

\* what lines 33-65 draw for window i of the path from a generator in state s
WindowDrawn(i, s) ==
    LET tangent == estimate_tangent(path, i)
    IN  SampleLoop([samples |-> <<>>, weights |-> <<>>, energies |-> <<>>,
                    rng |-> s, raised |-> FALSE],
                   path[i], tangent, Perp(tangent), umb_gaussians,
                   SamplesPerWindow)

\* the generator when window i begins: the seeded one, after the two draws of
\* every sample of the windows before i
GeneratorAtWindow(i) == RngAfter(RNG_SEED % 16, 2 * SamplesPerWindow * i)

-----------------------------------------------------------------------------
(* src/app/pes.py: parse_configuration; src/app/__init__.py:
   compute_visualisation *)

\* mapping.get(key, default); a mapping is a record of the keys it has
Get(mapping, key, default) ==
    IF key \in DOMAIN mapping THEN mapping[key] ELSE default

\* the decimal n/d as a float
Decimal(n, d) == DivRound(n * Unit, d)

\* stands for 60, the resolution from_mapping takes when none is given
DefaultResolution == MinResolution + 1

\* GridSpec.from_mapping(payload.get("grid")) raises ValueError (lines 62-63)
GridRaises(pl) ==
    /\ "grid" \in DOMAIN pl
    /\ Get(pl.grid, "maximum", Float(4)) <= Get(pl.grid, "minimum", Float(-4))

\* GridSpec.from_mapping(payload.get("grid")), where it does not raise
GridFromMapping(pl) ==
    IF "grid" \notin DOMAIN pl
    THEN GridSpec(Float(-4), Float(4), DefaultResolution)
    ELSE GridSpec(Get(pl.grid, "minimum", Float(-4)),
                  Get(pl.grid, "maximum", Float(4)),
                  Max2(Get(pl.grid, "resolution", DefaultResolution), MinResolution))

\* Gaussian.from_mapping(mapping): sigma is kept above the smallest positive
\* float
GaussianFromMapping(mapping) ==
    [amplitude |-> Get(mapping, "amplitude", 0),
     sigma |-> Max2(Get(mapping, "sigma", Float(1)), EPSILON),
     x0 |-> Get(mapping, "x0", 0),
     y0 |-> Get(mapping, "y0", 0)]

\* _to_gaussians(items)
to_gaussians(items) == [i \in DOMAIN items |-> GaussianFromMapping(items[i])]

\* default_configuration()["gaussians"]
DefaultGaussians ==
    << [amplitude |-> Float(4), sigma |-> Decimal(12, 10),
        x0 |-> Decimal(-15, 10), y0 |-> 0],
       [amplitude |-> Decimal(-65, 10), sigma |-> Decimal(8, 10),
        x0 |-> 0, y0 |-> 0],
       [amplitude |-> Float(5), sigma |-> Float(1),
        x0 |-> Decimal(18, 10), y0 |-> Decimal(6, 10)] >>

\* lines 215-217 of parse_configuration
GaussiansFromPayload(pl) ==
    LET given == to_gaussians(Get(pl, "gaussians", <<>>))
    IN  IF DOMAIN given = {} THEN to_gaussians(DefaultGaussians) ELSE given

\* payload.get(key, {}), an absent mapping being empty, and the radius
\* CircularState.from_mapping reads from it
StateRadius(pl, key) ==
    IF key \in DOMAIN pl THEN Get(pl[key], "radius", Float(1)) ELSE Float(1)

\* (mutant) only a negative radius is refused
StateRaisesIfNegative(pl, key) == StateRadius(pl, key) < 0

\* CircularState.from_mapping(payload.get(key, {})) raises ValueError
\* (lines 39-40)
StateRaises(pl, key) == StateRadius(pl, key) <= 0

\* CircularState.from_mapping(payload.get(key, {})), where it does not raise
StateFromMapping(pl, key) ==
    CircularState(IF key \in DOMAIN pl THEN Get(pl[key], "x0", 0) ELSE 0,
                  IF key \in DOMAIN pl THEN Get(pl[key], "y0", 0) ELSE 0,
                  StateRadius(pl, key))

\* parse_configuration(payload) raises ValueError
ParseRaises(pl) ==
    GridRaises(pl) \/ StateRaises(pl, "stateA") \/ StateRaises(pl, "stateB")

\* (mutant) a later maximum replaces an equal earlier one
ExceedsOrTies(candidate, best) == candidate >= best

\* max(..., key=...) replaces its best only by a strictly larger key
Exceeds(candidate, best) == candidate > best

\* line 48: max(range(len(values)), key=lambda i: values[i])
RECURSIVE ArgMaxFrom(_, _, _)
ArgMaxFrom(values, i, best) ==
    IF i >= PyLen(values) THEN best
    ELSE ArgMaxFrom(values, i + 1,
                    IF Exceeds(values[i], values[best]) THEN i ELSE best)

ArgMax(values) == ArgMaxFrom(values, 1, 0)

\* The arguments compute_visualisation passes to run_neb (lines 41-45) and to
\* transition_state_boundary (line 53). n_images = 18 and max_iter = 600 are
\* scaled to the model's bounds; step_size = 0.03 is taken as one unit of
\* resolution when it is below it.
PIPE_N_IMAGES == MaxImages
PIPE_K_SPRING == Decimal(25, 10)
PIPE_STEP_SIZE == Max2(Decimal(3, 100), EPSILON)
PIPE_MAX_ITER == MaxIter
PIPE_FORCE_TOLERANCE == Decimal(5, 10000)
PIPE_TOLERANCE == Decimal(15, 100)

\* The payloads the model submits: all defaults; a barrier between two
\* states; a deep well between two states
ValidPayloads ==
    { [gaussians |-> <<>>],
      [grid |-> [minimum |-> Float(-2), maximum |-> Float(2), resolution |-> 2],
       gaussians |-> << [amplitude |-> Float(4), x0 |-> 0, y0 |-> 0] >>,
       stateA |-> [x0 |-> Float(-2), y0 |-> 0, radius |-> Float(1)],
       stateB |-> [x0 |-> Float(2), radius |-> Float(1)]],
      [gaussians |-> << [amplitude |-> Float(-8), sigma |-> Float(1)] >>,
       stateA |-> [x0 |-> Float(-1)],
       stateB |-> [x0 |-> Float(1)]] }

\* ... and those with a radius <= 0 or a grid with maximum <= minimum
InvalidPayloads ==
    { [gaussians |-> <<>>, stateA |-> [x0 |-> Float(-2), radius |-> 0]],
      [gaussians |-> <<>>, stateB |-> [x0 |-> Float(2), radius |-> Float(-1)]],
      [gaussians |-> <<>>, grid |-> [maximum |-> Float(-4)]],
      [gaussians |-> <<>>,
       grid |-> [minimum |-> Float(2), maximum |-> Float(1), resolution |-> 2],
       stateA |-> [radius |-> 0]] }

Payloads == ValidPayloads \cup InvalidPayloads

\* One finished invocation: what it was given, what it returned or raised,
\* and the functions it called
LogEntry(pl, outcome, fns) == [payload |-> pl, outcome |-> outcome, called |-> fns]

Raised(error) == [raised |-> error]

\* compute_visualisation, not started, has Spec's only initial state
PipeInit == PipeOff /\ NebIdle /\ ScanIdle /\ UmbIdle

\* an invocation is over: its locals and those of its callees are gone
FrameDropped ==
    /\ pipe_pc' = "idle"
    /\ payload' = None
    /\ called' = <<>>
    /\ x_axis' = <<>>
    /\ y_axis' = <<>>
    /\ state_a' = None
    /\ state_b' = None
    /\ transition_idx' = Unbound
    /\ transition_point' = <<0, 0>>
    /\ response' = None
    /\ neb_pc' = "idle"
    /\ gaussians' = <<>>
    /\ start' = <<0, 0>>
    /\ end' = <<0, 0>>
    /\ n_images' = 0
    /\ k_spring' = 0
    /\ max_iter' = 0
    /\ step_size' = 0
    /\ force_tolerance' = 0
    /\ images' = <<>>
    /\ forces' = <<>>
    /\ iteration' = Unbound
    /\ max_force' = Unbound
    /\ idx' = Unbound
    /\ neb_result' = None
    /\ scan_pc' = "idle"
    /\ grid_spec' = None
    /\ grid_gaussians' = <<>>
    /\ grid_x' = <<>>
    /\ grid_y' = <<>>
    /\ potential_values' = <<>>
    /\ state' = None
    /\ transition_energy' = 0
    /\ tolerance' = 0
    /\ row' = 0
    /\ col' = 0
    /\ best_point' = <<0, 0>>
    /\ best_energy' = 0
    /\ points' = <<>>
    /\ z_range' = None
    /\ umb_pc' = "idle"
    /\ umb_gaussians' = <<>>
    /\ path' = <<>>
    /\ rng' = Unbound
    /\ windows' = <<>>
    /\ window_idx' = Unbound
    /\ samples' = <<>>
    /\ weights' = <<>>
    /\ energies' = <<>>
    /\ partition' = Unbound
    /\ expectation' = Unbound
    /\ free_energy' = Unbound

\* line 22: compute_visualisation(payload) is called
PipeInvoke ==
    /\ pipe_pc = "idle"
    /\ calls < MaxCalls
    /\ calls' = calls + 1
    /\ payload' \in Payloads
    /\ pipe_pc' = "parse"
    /\ UNCHANGED <<called, x_axis, y_axis, state_a, state_b, transition_idx,
                   transition_point, response, log>>
    /\ UNCHANGED <<nebVars, scanVars, umbVars>>

\* line 23: parse_configuration(payload), which may raise ValueError
PipeParse ==
    /\ pipe_pc = "parse"
    /\ IF ParseRaises(payload)
       THEN /\ log' = Append(log, LogEntry(payload, Raised("ValueError"),
                                           Append(called, "parse_configuration")))
            /\ FrameDropped
            /\ UNCHANGED calls
       ELSE /\ grid_spec' = GridFromMapping(payload)
            /\ grid_gaussians' = GaussiansFromPayload(payload)
            /\ state_a' = StateFromMapping(payload, "stateA")
            /\ state_b' = StateFromMapping(payload, "stateB")
            /\ called' = Append(called, "parse_configuration")
            /\ pipe_pc' = "create_grid"
            /\ UNCHANGED <<calls, payload, x_axis, y_axis, transition_idx,
                           transition_point, response, log>>
            /\ UNCHANGED <<scan_pc, grid_x, grid_y, potential_values, state,
                           transition_energy, tolerance, row, col, best_point,
                           best_energy, points, z_range>>
            /\ UNCHANGED <<nebVars, umbVars>>

\* line 24: create_grid(grid_spec)
PipeCreateGrid ==
    /\ pipe_pc = "create_grid"
    /\ LET grid == create_grid(grid_spec)
       IN  /\ grid_x' = grid.grid_x
           /\ grid_y' = grid.grid_y
           /\ x_axis' = grid.x_axis
           /\ y_axis' = grid.y_axis
    /\ called' = Append(called, "create_grid")
    /\ pipe_pc' = "evaluate_potential"
    /\ UNCHANGED <<calls, payload, state_a, state_b, transition_idx,
                   transition_point, response, log>>
    /\ UNCHANGED <<scan_pc, grid_spec, grid_gaussians, potential_values, state,
                   transition_energy, tolerance, row, col, best_point,
                   best_energy, points, z_range>>
    /\ UNCHANGED <<nebVars, umbVars>>

\* line 25: evaluate_potential(grid_x, grid_y, gaussians)
PipeEvaluatePotential ==
    /\ pipe_pc = "evaluate_potential"
    /\ potential_values' = evaluate_potential(grid_x, grid_y, grid_gaussians)
    /\ called' = Append(called, "evaluate_potential")
    /\ pipe_pc' = "entry_points"
    /\ UNCHANGED <<calls, payload, x_axis, y_axis, state_a, state_b,
                   transition_idx, transition_point, response, log>>
    /\ UNCHANGED <<scan_pc, grid_spec, grid_gaussians, grid_x, grid_y, state,
                   transition_energy, tolerance, row, col, best_point,
                   best_energy, points, z_range>>
    /\ UNCHANGED <<nebVars, umbVars>>

\* lines 33-46: the two entry points, and the call of run_neb
PipeRunNeb ==
    /\ pipe_pc = "entry_points"
    /\ start' = state_entry_point(grid_x, grid_y, potential_values, state_a)
    /\ end' = state_entry_point(grid_x, grid_y, potential_values, state_b)
    /\ gaussians' = grid_gaussians
    /\ n_images' = PIPE_N_IMAGES
    /\ k_spring' = PIPE_K_SPRING
    /\ step_size' = PIPE_STEP_SIZE
    /\ max_iter' = PIPE_MAX_ITER
    /\ force_tolerance' = PIPE_FORCE_TOLERANCE
    /\ neb_pc' = "start"
    /\ called' = called \o <<"_state_entry_point", "_state_entry_point", "run_neb">>
    /\ pipe_pc' = "run_neb"
    /\ UNCHANGED <<images, forces, iteration, max_force, idx, neb_result>>
    /\ UNCHANGED <<calls, payload, x_axis, y_axis, state_a, state_b,
                   transition_idx, transition_point, response, log>>
    /\ UNCHANGED <<scanVars, umbVars>>

\* lines 48-50: run_neb has returned; the transition state
PipeTransition ==
    /\ pipe_pc = "run_neb"
    /\ neb_pc = "done"
    /\ transition_idx' = ArgMax(neb_result.energies)
    /\ transition_point' = neb_result.path[transition_idx']
    /\ transition_energy' = neb_result.energies[transition_idx']
    /\ pipe_pc' = "boundary"
    /\ UNCHANGED <<calls, payload, called, x_axis, y_axis, state_a, state_b,
                   response, log>>
    /\ UNCHANGED <<scan_pc, grid_spec, grid_gaussians, grid_x, grid_y,
                   potential_values, state, tolerance, row, col, best_point,
                   best_energy, points, z_range>>
    /\ UNCHANGED <<nebVars, umbVars>>

\* lines 52-54: transition_state_boundary(..., tolerance=0.15)
PipeBoundary ==
    /\ pipe_pc = "boundary"
    /\ tolerance' = PIPE_TOLERANCE
    /\ points' = transition_state_boundary(grid_x, grid_y, potential_values,
                                           transition_energy, PIPE_TOLERANCE)
    /\ called' = Append(called, "transition_state_boundary")
    /\ pipe_pc' = "umbrella"
    /\ UNCHANGED <<calls, payload, x_axis, y_axis, state_a, state_b,
                   transition_idx, transition_point, response, log>>
    /\ UNCHANGED <<scan_pc, grid_spec, grid_gaussians, grid_x, grid_y,
                   potential_values, state, transition_energy, row, col,
                   best_point, best_energy, z_range>>
    /\ UNCHANGED <<nebVars, umbVars>>

\* line 56: the call of umbrella_sampling(potential, neb_result.path)
PipeUmbrella ==
    /\ pipe_pc = "umbrella"
    /\ umb_gaussians' = grid_gaussians
    /\ path' = neb_result.path
    /\ umb_pc' = "start"
    /\ called' = Append(called, "umbrella_sampling")
    /\ pipe_pc' = "umbrella_sampling"
    /\ UNCHANGED <<rng, windows, window_idx, samples, weights, energies,
                   partition, expectation, free_energy>>
    /\ UNCHANGED <<calls, payload, x_axis, y_axis, state_a, state_b,
                   transition_idx, transition_point, response, log>>
    /\ UNCHANGED <<nebVars, scanVars>>

\* line 56: umbrella_sampling has raised, and so does compute_visualisation
PipeUmbrellaRaised ==
    /\ pipe_pc = "umbrella_sampling"
    /\ umb_pc \in {"IndexError", "OverflowError"}
    /\ log' = Append(log, LogEntry(payload, Raised(umb_pc), called))
    /\ FrameDropped
    /\ UNCHANGED calls

\* line 57: umbrella_sampling has returned; grid_min_max(potential_values)
PipeMinMax ==
    /\ pipe_pc = "umbrella_sampling"
    /\ umb_pc = "done"
    /\ z_range' = grid_min_max(potential_values)
    /\ called' = Append(called, "grid_min_max")
    /\ pipe_pc' = "respond"
    /\ UNCHANGED <<calls, payload, x_axis, y_axis, state_a, state_b,
                   transition_idx, transition_point, response, log>>
    /\ UNCHANGED <<scan_pc, grid_spec, grid_gaussians, grid_x, grid_y,
                   potential_values, state, transition_energy, tolerance, row,
                   col, best_point, best_energy, points>>
    /\ UNCHANGED <<nebVars, umbVars>>

\* lines 59-103: the response dictionary
Response ==
    [grid |-> [x |-> x_axis, y |-> y_axis, z |-> potential_values,
               zMin |-> z_range[1], zMax |-> z_range[2]],
     states |-> [A |-> state_a, B |-> state_b],
     path |-> [i \in DOMAIN neb_result.path |->
                  [x |-> neb_result.path[i][1], y |-> neb_result.path[i][2],
                   z |-> neb_result.energies[i]]],
     transitionState |-> [index |-> transition_idx,
                          x |-> transition_point[1],
                          y |-> transition_point[2],
                          energy |-> transition_energy],
     boundary |-> points,
     umbrella |-> [i \in DOMAIN windows |->
                      [index |-> windows[i].center_index,
                       reactionCoordinate |-> windows[i].reaction_coordinate,
                       freeEnergy |-> windows[i].free_energy,
                       samples |-> windows[i].samples]],
     meta |-> [nebIterations |-> neb_result.iterations,
               nebMaxForce |-> neb_result.max_force]]

\* lines 59-104: the response is built and returned
PipeRespond ==
    /\ pipe_pc = "respond"
    /\ response' = Response
    /\ pipe_pc' = "return"
    /\ UNCHANGED <<calls, payload, called, x_axis, y_axis, state_a, state_b,
                   transition_idx, transition_point, log>>
    /\ UNCHANGED <<nebVars, scanVars, umbVars>>

\* line 104: the caller has the response
PipeReturn ==
    /\ pipe_pc = "return"
    /\ log' = Append(log, LogEntry(payload, response, called))
    /\ FrameDropped
    /\ UNCHANGED calls

PipeNext ==
    \/ PipeInvoke \/ PipeParse \/ PipeCreateGrid \/ PipeEvaluatePotential
    \/ PipeRunNeb \/ PipeTransition \/ PipeBoundary \/ PipeUmbrella
    \/ PipeUmbrellaRaised \/ PipeMinMax \/ PipeRespond \/ PipeReturn

Next == PipeNext \/ NebNext \/ UmbNext

Spec == PipeInit /\ [][Next]_vars

-----------------------------------------------------------------------------
(* Claims about compute_visualisation *)

\* the configuration has a stateA or stateB with radius <= 0, or a grid with
\* maximum <= minimum
InvalidConfiguration(pl) ==
    \/ \E key \in {"stateA", "stateB"} :
          /\ key \in DOMAIN pl
          /\ "radius" \in DOMAIN pl[key]
          /\ pl[key].radius <= 0
    \/ /\ "grid" \in DOMAIN pl
       /\ (IF "maximum" \in DOMAIN pl.grid THEN pl.grid.maximum ELSE Float(4))
             <= (IF "minimum" \in DOMAIN pl.grid THEN pl.grid.minimum ELSE Float(-4))

IsResponse(outcome) == "raised" \notin DOMAIN outcome

\* C3: an invocation whose configuration has a radius <= 0 or a grid with
\* maximum <= minimum raises ValueError in parse_configuration: it calls no
\* other function (no grid is built, no potential evaluated, run_neb and
\* umbrella_sampling are not called) and it returns no response.
C3_InvalidConfigurationFailsAtParse ==
    /\ \A i \in DOMAIN log :
          InvalidConfiguration(log[i].payload) =>
              /\ ~IsResponse(log[i].outcome)
              /\ log[i].outcome.raised = "ValueError"
              /\ log[i].called = <<"parse_configuration">>
    /\ (pipe_pc # "idle" /\ InvalidConfiguration(payload)) =>
          /\ pipe_pc = "parse"
          /\ called = <<>>
          /\ grid_x = <<>> /\ potential_values = <<>>
          /\ neb_pc = "idle" /\ umb_pc = "idle"
          /\ response = None

C3_Witness ==
    \E i \in DOMAIN log, j \in DOMAIN log :
        /\ j < i
        /\ IsResponse(log[j].outcome)
        /\ InvalidConfiguration(log[i].payload)
        /\ ~IsResponse(log[i].outcome)

\* C5: the transition state of a response is an image of the path whose
\* energy no image exceeds and no earlier image equals; its point and energy
\* are those of that image.
C5_TransitionIsFirstMaximum ==
    pipe_pc = "return" =>
        LET i == response.transitionState.index
            images_out == response.path
        IN  /\ i \in DOMAIN images_out
            /\ \A j \in DOMAIN images_out : images_out[j].z <= images_out[i].z
            /\ \A j \in DOMAIN images_out : j < i => images_out[j].z < images_out[i].z
            /\ response.transitionState.x = images_out[i].x
            /\ response.transitionState.y = images_out[i].y
            /\ response.transitionState.energy = images_out[i].z

C5_Witness ==
    /\ pipe_pc = "return"
    /\ \E j \in DOMAIN response.path :
          /\ j > response.transitionState.index
          /\ response.path[j].z = response.transitionState.energy
    /\ \E j \in DOMAIN response.path :
          response.path[j].z < response.transitionState.energy

\* C9: two finished invocations with the same payload have the same outcome,
\* whatever was invoked before or between them.
C9_SameInputSameResult ==
    \A a \in DOMAIN log, b \in DOMAIN log :
        log[a].payload = log[b].payload => log[a].outcome = log[b].outcome

C9_Witness ==
    \E a \in DOMAIN log, b \in DOMAIN log, c \in DOMAIN log :
        /\ a < b /\ b < c
        /\ log[a].payload = log[c].payload
        /\ log[b].payload # log[a].payload
        /\ IsResponse(log[a].outcome)
        /\ IsResponse(log[b].outcome)
        /\ PyLen(log[a].outcome.umbrella) > 1
        /\ log[a].outcome = log[c].outcome

====
